---- MODULE Spec2Model ----
(***************************************************************************)
(* Capture orchestration of src/main.rs: the orchestrator (main), the RDP  *)
(* worker pool (rdp_worker) with its spawned capture tasks and status      *)
(* channel, and the sequential web pipeline (web_worker).                  *)
(*                                                                         *)
(* Targets are identified by their 1-based position in the target list.    *)
(* rdp::capture and web::capture are external to main.rs; what a capture   *)
(* task does (emit one "task complete" signal, then end with a result) is  *)
(* taken from the design document.                                         *)
(***************************************************************************)
EXTENDS Integers, Sequences, FiniteSets, TLC

\* Bound: total number of targets (RDP plus web) of a run.
MaxTargets == 5

\* let max_workers: usize = 3;
max_workers == 3

\* The capture backends web_worker is conditionally compiled for; exactly
\* one is active in a run.
Backends == {"wkhtmltoimage", "wkhtmltoimage_bin", "headlesschrome"}

\* What one web::capture call yields: success, an I/O failure
\* (Error::IoError) or the backend-specific failure
\* (Error::WkhtmltoimageError / Error::ChromeError).
CaptureOutcomes == {"Ok", "IoError", "BackendError"}

\* Result<(), Error> of one rdp::capture task, seen at join time.
TaskResults == {"Ok", "Err"}

VARIABLES
    backend,        \* the compiled-in web capture backend
    rdp_targets,    \* targets.rdp_targets
    web_targets,    \* targets.web_targets
    rdp_dir,        \* ./output/rdp is a directory
    web_dir,        \* ./output/web is a directory
    mainPc,         \* position of main
    rdpPc,          \* position of the rdp_worker thread
    num_workers,    \* rdp_worker: active count (below 0 stands for usize underflow)
    targets_iter,   \* rdp_worker: number of targets the iterator has yielded
    workers,        \* rdp_worker: handles of the spawned tasks, in push order
    chan,           \* ThreadStatus::Complete messages in the status channel
    task,           \* per RDP target: state of its capture thread
    result,         \* per RDP target: what its capture thread returned
    joined,         \* rdp_worker: number of handles joined so far
    joinOrder,      \* rdp_worker: the handles join() has returned for, in order
    webPc,          \* position of the web_worker thread
    webIdx,         \* web_worker: number of targets the for loop has taken
    webOut          \* outcomes of the web::capture calls that returned

vars == <<backend, rdp_targets, web_targets, rdp_dir, web_dir, mainPc, rdpPc,
          num_workers, targets_iter, workers, chan, task, result, joined,
          joinOrder, webPc, webIdx, webOut>>

mainVars == <<rdp_dir, web_dir, mainPc>>
rdpVars == <<rdpPc, num_workers, targets_iter, workers, chan, task, result,
             joined, joinOrder>>
webVars == <<webPc, webIdx, webOut>>
inputVars == <<backend, rdp_targets, web_targets>>

Ids(n) == [i \in 1..n |-> i]

Init ==
    /\ backend \in Backends
    /\ \E n \in 0..MaxTargets : \E m \in 0..(MaxTargets - n) :
          /\ rdp_targets = Ids(n)
          /\ web_targets = Ids(m)
          /\ task = [k \in 1..n |-> "unspawned"]
          /\ result = [k \in 1..n |-> "none"]
    /\ rdp_dir \in BOOLEAN
    /\ web_dir \in BOOLEAN
    /\ mainPc = "mkdir_rdp"
    /\ rdpPc = "unstarted"
    /\ num_workers = 0
    /\ targets_iter = 0
    /\ workers = <<>>
    /\ chan = 0
    /\ joined = 0
    /\ joinOrder = <<>>
    /\ webPc = "unstarted"
    /\ webIdx = 0
    /\ webOut = <<>>

\* The process (and with it every thread) lives until main returns or panics.
ProcessAlive == mainPc \notin {"exited", "panicked"}

----------------------------------------------------------------------------
\* main

\* Faulty variant: create the directory without looking whether it exists.
EnsureDirNoCheck(exists, createOk) ==
    IF createOk
       THEN [dir |-> TRUE, created |-> TRUE, panic |-> FALSE]
       ELSE [dir |-> exists, created |-> FALSE, panic |-> TRUE]

\* if !dir.is_dir() { create_dir_all(dir).unwrap_or_else(|_| panic!(..)) }
\* exists: dir.is_dir(); createOk: whether create_dir_all would succeed.
\* Yields whether the directory exists afterwards, whether create_dir_all
\* made it, and whether main panics.
EnsureDir(exists, createOk) ==
    IF exists
       THEN [dir |-> TRUE, created |-> FALSE, panic |-> FALSE]
       ELSE IF createOk
               THEN [dir |-> TRUE, created |-> TRUE, panic |-> FALSE]
               ELSE [dir |-> FALSE, created |-> FALSE, panic |-> TRUE]

\* Directory set-up for ./output/rdp
MainCreateRdpDir ==
    /\ mainPc = "mkdir_rdp"
    /\ \E createOk \in BOOLEAN :
          /\ rdp_dir' = EnsureDir(rdp_dir, createOk).dir
          /\ mainPc' = IF EnsureDir(rdp_dir, createOk).panic
                          THEN "panicked" ELSE "mkdir_web"
    /\ UNCHANGED <<web_dir, inputVars, rdpVars, webVars>>

\* Faulty variant: a failed creation of ./output/web is ignored.
MainCreateWebDirIgnoreFailure ==
    /\ mainPc = "mkdir_web"
    /\ \E createOk \in BOOLEAN :
          /\ web_dir' = EnsureDir(web_dir, createOk).dir
          /\ mainPc' = "spawn_rdp"
    /\ UNCHANGED <<rdp_dir, inputVars, rdpVars, webVars>>

\* Directory set-up for ./output/web
MainCreateWebDir ==
    /\ mainPc = "mkdir_web"
    /\ \E createOk \in BOOLEAN :
          /\ web_dir' = EnsureDir(web_dir, createOk).dir
          /\ mainPc' = IF EnsureDir(web_dir, createOk).panic
                          THEN "panicked" ELSE "spawn_rdp"
    /\ UNCHANGED <<rdp_dir, inputVars, rdpVars, webVars>>

\* let rdp_handle = thread::spawn(move || rdp_worker(..));
MainSpawnRdp ==
    /\ mainPc = "spawn_rdp"
    /\ mainPc' = "spawn_web"
    /\ rdpPc' = "poll"
    /\ UNCHANGED <<rdp_dir, web_dir, inputVars, num_workers, targets_iter,
                   workers, chan, task, result, joined, joinOrder, webVars>>

\* let web_handle = thread::spawn(move || web_worker(..).unwrap());
MainSpawnWeb ==
    /\ mainPc = "spawn_web"
    /\ mainPc' = "join_rdp"
    /\ webPc' = "init"
    /\ UNCHANGED <<rdp_dir, web_dir, inputVars, rdpVars, webIdx, webOut>>

\* Faulty variant: main does not wait for the rdp_worker thread.
MainJoinRdpNoWait ==
    /\ mainPc = "join_rdp"
    /\ mainPc' = "join_web"
    /\ UNCHANGED <<rdp_dir, web_dir, inputVars, rdpVars, webVars>>

\* Faulty variant: the outcome of joining rdp_handle is discarded.
MainJoinRdpIgnorePanic ==
    /\ mainPc = "join_rdp"
    /\ rdpPc \in {"returned", "panicked"}
    /\ mainPc' = "join_web"
    /\ UNCHANGED <<rdp_dir, web_dir, inputVars, rdpVars, webVars>>

\* rdp_handle.join().unwrap().unwrap();  blocks until the thread has ended;
\* the first unwrap panics when rdp_worker panicked (rdp_worker itself only
\* ever returns Ok(())).
MainJoinRdp ==
    /\ mainPc = "join_rdp"
    /\ rdpPc \in {"returned", "panicked"}
    /\ mainPc' = IF rdpPc = "panicked" THEN "panicked" ELSE "join_web"
    /\ UNCHANGED <<rdp_dir, web_dir, inputVars, rdpVars, webVars>>

\* web_handle.join().unwrap();  panics when the web thread panicked
MainJoinWeb ==
    /\ mainPc = "join_web"
    /\ webPc \in {"returned", "panicked"}
    /\ mainPc' = IF webPc = "panicked" THEN "panicked" ELSE "exited"
    /\ UNCHANGED <<rdp_dir, web_dir, inputVars, rdpVars, webVars>>

----------------------------------------------------------------------------
\* rdp::capture task threads

\* Faulty variant: the task frees its slot itself, through a counter it
\* shares with the scheduler.
TaskFrameSharedCounter ==
    /\ num_workers' = num_workers - 1
    /\ UNCHANGED <<mainVars, inputVars, webVars, rdpPc, targets_iter, workers,
                   joined, joinOrder>>

\* thread::spawn(move || rdp::capture(&target, &output_dir, tx)): the closure
\* owns a clone of the target, the output directory and a sender, and
\* nothing else of rdp_worker, main or web_worker.
TaskFrame ==
    UNCHANGED <<mainVars, inputVars, webVars, rdpPc, num_workers, targets_iter,
                workers, joined, joinOrder>>

\* A capture task that has finished its work, with result r, sends
\* ThreadStatus::Complete on its clone of the sender and its thread ends,
\* leaving r to whoever joins the handle.
TaskComplete(k, r) ==
    /\ ProcessAlive
    /\ task[k] = "running"
    /\ task' = [task EXCEPT ![k] = "completed"]
    /\ result' = [result EXCEPT ![k] = r]
    /\ chan' = chan + 1
    /\ TaskFrame

\* A capture task's thread panics before it has sent its signal: the thread
\* ends, nothing is sent, and joining its handle yields Err.
TaskPanic(k) ==
    /\ ProcessAlive
    /\ task[k] = "running"
    /\ task' = [task EXCEPT ![k] = "panicked"]
    /\ UNCHANGED <<chan, result>>
    /\ TaskFrame

----------------------------------------------------------------------------
\* rdp_worker

\* thread_status_rx.try_recv() is Ok(ThreadStatus::Complete)
TryRecvOk(c) == c > 0

\* Faulty variant: <= in place of <.
SlotFreeOffByOne(n) == n <= max_workers

\* if num_workers < max_workers
SlotFree(n) == n < max_workers

\* Faulty variant: the iterator runs from the end of the sequence.
IterNextReversed(i) == rdp_targets[Len(rdp_targets) - i]

\* targets_iter.next(): the target the iterator yields after having yielded
\* i of them
IterNext(i) == rdp_targets[i + 1]

\* Faulty variant: a received signal does not free the slot.
RdpPollIgnoreSignal ==
    /\ ProcessAlive
    /\ rdpPc = "poll"
    /\ IF TryRecvOk(chan)
          THEN /\ chan' = chan - 1
               /\ num_workers' = num_workers
          ELSE UNCHANGED <<chan, num_workers>>
    /\ rdpPc' = "dispatch"
    /\ UNCHANGED <<mainVars, inputVars, webVars, targets_iter, workers, task,
                   result, joined, joinOrder>>

\* Faulty variant: a pass that finds no signal gives up on a busy slot.
RdpPollFreesOnEmpty ==
    /\ ProcessAlive
    /\ rdpPc = "poll"
    /\ IF TryRecvOk(chan)
          THEN /\ chan' = chan - 1
               /\ num_workers' = num_workers - 1
          ELSE /\ chan' = chan
               /\ num_workers' = IF num_workers = max_workers
                                    THEN num_workers - 1 ELSE num_workers
    /\ rdpPc' = "dispatch"
    /\ UNCHANGED <<mainVars, inputVars, webVars, targets_iter, workers, task,
                   result, joined, joinOrder>>

\* Faulty variant: the count is decremented on every pass, signal or not.
RdpPollAlwaysDecrement ==
    /\ ProcessAlive
    /\ rdpPc = "poll"
    /\ chan' = IF TryRecvOk(chan) THEN chan - 1 ELSE chan
    /\ num_workers' = num_workers - 1
    /\ rdpPc' = "dispatch"
    /\ UNCHANGED <<mainVars, inputVars, webVars, targets_iter, workers, task,
                   result, joined, joinOrder>>

\* Faulty variant: one pass drains every pending signal from the channel.
RdpPollDrainAll ==
    /\ ProcessAlive
    /\ rdpPc = "poll"
    /\ IF TryRecvOk(chan)
          THEN /\ chan' = 0
               /\ num_workers' = num_workers - chan
          ELSE UNCHANGED <<chan, num_workers>>
    /\ rdpPc' = "dispatch"
    /\ UNCHANGED <<mainVars, inputVars, webVars, targets_iter, workers, task,
                   result, joined, joinOrder>>

\* match thread_status_rx.try_recv() { Ok(Complete) => num_workers -= 1, Err(_) => {} }
RdpPoll ==
    /\ ProcessAlive
    /\ rdpPc = "poll"
    /\ IF TryRecvOk(chan)
          THEN /\ chan' = chan - 1
               /\ num_workers' = num_workers - 1
          ELSE UNCHANGED <<chan, num_workers>>
    /\ rdpPc' = "dispatch"
    /\ UNCHANGED <<mainVars, inputVars, webVars, targets_iter, workers, task,
                   result, joined, joinOrder>>

\* Faulty variant: the iterator is looked at before the count, so the loop
\* is left as soon as no target remains, free slot or not.
RdpDispatchBreakFirst ==
    /\ ProcessAlive
    /\ rdpPc = "dispatch"
    /\ IF targets_iter < Len(rdp_targets)
          THEN IF SlotFree(num_workers)
                  THEN /\ task' = [task EXCEPT ![IterNext(targets_iter)] = "running"]
                       /\ workers' = Append(workers, IterNext(targets_iter))
                       /\ targets_iter' = targets_iter + 1
                       /\ num_workers' = num_workers + 1
                       /\ rdpPc' = "poll"
                  ELSE /\ rdpPc' = "poll"
                       /\ UNCHANGED <<task, workers, targets_iter, num_workers>>
          ELSE /\ rdpPc' = "join"
               /\ UNCHANGED <<task, workers, targets_iter, num_workers>>
    /\ UNCHANGED <<mainVars, inputVars, webVars, chan, result, joined, joinOrder>>

\* Faulty variant: the loop is also left when no slot is free.
RdpDispatchBreakWhenFull ==
    /\ ProcessAlive
    /\ rdpPc = "dispatch"
    /\ IF SlotFree(num_workers) /\ targets_iter < Len(rdp_targets)
          THEN /\ task' = [task EXCEPT ![IterNext(targets_iter)] = "running"]
               /\ workers' = Append(workers, IterNext(targets_iter))
               /\ targets_iter' = targets_iter + 1
               /\ num_workers' = num_workers + 1
               /\ rdpPc' = "poll"
          ELSE /\ rdpPc' = "join"
               /\ UNCHANGED <<task, workers, targets_iter, num_workers>>
    /\ UNCHANGED <<mainVars, inputVars, webVars, chan, result, joined, joinOrder>>

\* if num_workers < max_workers {
\*     if let Some(target) = targets_iter.next() { spawn; push; num_workers += 1 }
\*     else { break }
\* }
RdpDispatch ==
    /\ ProcessAlive
    /\ rdpPc = "dispatch"
    /\ IF SlotFree(num_workers)
          THEN IF targets_iter < Len(rdp_targets)
                  THEN /\ task' = [task EXCEPT ![IterNext(targets_iter)] = "running"]
                       /\ workers' = Append(workers, IterNext(targets_iter))
                       /\ targets_iter' = targets_iter + 1
                       /\ num_workers' = num_workers + 1
                       /\ rdpPc' = "poll"
                  ELSE /\ rdpPc' = "join"
                       /\ UNCHANGED <<task, workers, targets_iter, num_workers>>
          ELSE /\ rdpPc' = "poll"
               /\ UNCHANGED <<task, workers, targets_iter, num_workers>>
    /\ UNCHANGED <<mainVars, inputVars, webVars, chan, result, joined, joinOrder>>

\* Faulty variant: the first Err result ends the join loop (Ok(()) early).
RdpJoinStopOnErr ==
    /\ ProcessAlive
    /\ rdpPc = "join"
    /\ IF joined < Len(workers)
          THEN /\ task[workers[joined + 1]] \in {"completed", "panicked"}
               /\ IF task[workers[joined + 1]] = "panicked"
                     THEN /\ rdpPc' = "panicked"
                          /\ joined' = joined
                          /\ joinOrder' = joinOrder
                     ELSE /\ joined' = joined + 1
                          /\ joinOrder' = Append(joinOrder, workers[joined + 1])
                          /\ rdpPc' = IF result[workers[joined + 1]] = "Err"
                                         THEN "returned" ELSE rdpPc
          ELSE /\ rdpPc' = "returned"
               /\ joined' = joined
               /\ joinOrder' = joinOrder
    /\ UNCHANGED <<mainVars, inputVars, webVars, num_workers, targets_iter,
                   workers, chan, task, result>>

\* Faulty variant: an Err result is unwrapped and panics rdp_worker.
RdpJoinPanicOnErr ==
    /\ ProcessAlive
    /\ rdpPc = "join"
    /\ IF joined < Len(workers)
          THEN /\ task[workers[joined + 1]] \in {"completed", "panicked"}
               /\ IF task[workers[joined + 1]] = "panicked"
                     THEN /\ rdpPc' = "panicked"
                          /\ joined' = joined
                          /\ joinOrder' = joinOrder
                     ELSE /\ joined' = joined + 1
                          /\ joinOrder' = Append(joinOrder, workers[joined + 1])
                          /\ rdpPc' = IF result[workers[joined + 1]] = "Err"
                                         THEN "panicked" ELSE rdpPc
          ELSE /\ rdpPc' = "returned"
               /\ joined' = joined
               /\ joinOrder' = joinOrder
    /\ UNCHANGED <<mainVars, inputVars, webVars, num_workers, targets_iter,
                   workers, chan, task, result>>

\* Faulty variant: the handles are joined from the last pushed to the first.
RdpJoinReverse ==
    /\ ProcessAlive
    /\ rdpPc = "join"
    /\ IF joined < Len(workers)
          THEN /\ task[workers[Len(workers) - joined]] \in {"completed", "panicked"}
               /\ IF task[workers[Len(workers) - joined]] = "panicked"
                     THEN /\ rdpPc' = "panicked"
                          /\ joined' = joined
                          /\ joinOrder' = joinOrder
                     ELSE /\ rdpPc' = rdpPc
                          /\ joined' = joined + 1
                          /\ joinOrder' = Append(joinOrder, workers[Len(workers) - joined])
          ELSE /\ rdpPc' = "returned"
               /\ joined' = joined
               /\ joinOrder' = joinOrder
    /\ UNCHANGED <<mainVars, inputVars, webVars, num_workers, targets_iter,
                   workers, chan, task, result>>

\* for w in workers { if w.join().unwrap().is_err() { warn!(..) } }  Ok(())
\* join() blocks until the task's thread has ended; it yields Err when the
\* thread panicked and the unwrap then panics rdp_worker.
RdpJoin ==
    /\ ProcessAlive
    /\ rdpPc = "join"
    /\ IF joined < Len(workers)
          THEN /\ task[workers[joined + 1]] \in {"completed", "panicked"}
               /\ IF task[workers[joined + 1]] = "panicked"
                     THEN /\ rdpPc' = "panicked"
                          /\ joined' = joined
                          /\ joinOrder' = joinOrder
                     ELSE /\ rdpPc' = rdpPc
                          /\ joined' = joined + 1
                          /\ joinOrder' = Append(joinOrder, workers[joined + 1])
          ELSE /\ rdpPc' = "returned"
               /\ joined' = joined
               /\ joinOrder' = joinOrder
    /\ UNCHANGED <<mainVars, inputVars, webVars, num_workers, targets_iter,
                   workers, chan, task, result>>

----------------------------------------------------------------------------
\* web_worker

\* Faulty variant: an I/O failure is logged and the loop goes on.
OnCaptureResultIoContinues(b, o) ==
    IF o = "Ok" THEN "continue"
    ELSE IF b = "wkhtmltoimage_bin" THEN "panic"
    ELSE "continue"

\* What the loop body does with the outcome of web::capture under backend b:
\* "continue" with the next target, "break" out of the loop, or "panic".
\*   wkhtmltoimage, headlesschrome: IoError => break, backend error => log
\*   wkhtmltoimage_bin: web::capture(..).unwrap()
OnCaptureResult(b, o) ==
    IF o = "Ok" THEN "continue"
    ELSE IF b = "wkhtmltoimage_bin" THEN "panic"
    ELSE IF o = "IoError" THEN "break"
    ELSE "continue"

\* Backend handle set-up before the loop: get_wkhtmltoimage_path().unwrap(),
\* ImageApplication::new().expect(..), Browser::default().expect(..) and
\* wait_for_initial_tab().expect(..) each panic on failure.
WebInit ==
    /\ ProcessAlive
    /\ webPc = "init"
    /\ webPc' \in {"loop", "panicked"}
    /\ UNCHANGED <<mainVars, inputVars, rdpVars, webIdx, webOut>>

\* Faulty variant: the next capture is started without waiting for the
\* one in progress to return.
WebCallOverlapping ==
    /\ ProcessAlive
    /\ webPc \in {"loop", "capturing"}
    /\ IF webIdx < Len(web_targets)
          THEN /\ webIdx' = webIdx + 1
               /\ webPc' = "capturing"
          ELSE /\ webPc = "loop"
               /\ webIdx' = webIdx
               /\ webPc' = "returned"
    /\ UNCHANGED <<mainVars, inputVars, rdpVars, webOut>>

\* for target in &targets.web_targets { web::capture(target, ..) ... }  Ok(())
\* The loop takes the next target and calls web::capture, or ends.
WebCall ==
    /\ ProcessAlive
    /\ webPc = "loop"
    /\ IF webIdx < Len(web_targets)
          THEN /\ webIdx' = webIdx + 1
               /\ webPc' = "capturing"
          ELSE /\ webIdx' = webIdx
               /\ webPc' = "returned"
    /\ UNCHANGED <<mainVars, inputVars, rdpVars, webOut>>

\* web::capture returns with outcome o for the target the loop is at
WebReturn(o) ==
    /\ ProcessAlive
    /\ webPc = "capturing"
    /\ webOut' = Append(webOut, o)
    /\ webPc' = CASE OnCaptureResult(backend, o) = "continue" -> "loop"
                  [] OnCaptureResult(backend, o) = "break" -> "returned"
                  [] OnCaptureResult(backend, o) = "panic" -> "panicked"
    /\ UNCHANGED <<mainVars, inputVars, rdpVars, webIdx>>

----------------------------------------------------------------------------
Next ==
    \/ MainCreateRdpDir
    \/ MainCreateWebDir
    \/ MainSpawnRdp
    \/ MainSpawnWeb
    \/ MainJoinRdp
    \/ MainJoinWeb
    \/ RdpPoll
    \/ RdpDispatch
    \/ RdpJoin
    \/ \E k \in DOMAIN task : \E r \in TaskResults : TaskComplete(k, r)
    \/ \E k \in DOMAIN task : TaskPanic(k)
    \/ WebInit
    \/ WebCall
    \/ \E o \in CaptureOutcomes : WebReturn(o)

Spec == Init /\ [][Next]_vars

\* Scheduling: every thread that can take a step eventually takes one (OS
\* threads), every spawned capture task eventually finishes, and every
\* web::capture call eventually returns.
Fairness ==
    /\ WF_vars(MainCreateRdpDir \/ MainCreateWebDir \/ MainSpawnRdp
                  \/ MainSpawnWeb \/ MainJoinRdp \/ MainJoinWeb)
    /\ WF_vars(RdpPoll \/ RdpDispatch \/ RdpJoin)
    /\ WF_vars(WebInit \/ WebCall \/ \E o \in CaptureOutcomes : WebReturn(o))
    /\ \A k \in 1..MaxTargets :
          WF_vars(k \in DOMAIN task /\ \E r \in TaskResults : TaskComplete(k, r))

FairSpec == Spec /\ Fairness

----------------------------------------------------------------------------
\* Properties

\* Number of handles in workers that belong to the target at position t
TimesDispatched(t) ==
    Cardinality({i \in DOMAIN workers : workers[i] = rdp_targets[t]})

\* Capture tasks spawned whose completion signal has not been sent
Running == {k \in DOMAIN task : task[k] = "running"}

\* The handles joined so far
JoinedTasks == {workers[i] : i \in 1..joined}

InJoinPhase == rdpPc \in {"join", "returned"}

\* C1: no target is ever handed to two capture tasks, and once rdp_worker
\* is in its join phase every target of the sequence has been handed to
\* exactly one.
C1_DispatchedExactlyOnce ==
    /\ \A t \in DOMAIN rdp_targets : TimesDispatched(t) <= 1
    /\ InJoinPhase => \A t \in DOMAIN rdp_targets : TimesDispatched(t) = 1

C1_Witness ==
    /\ rdpPc = "join"
    /\ Len(rdp_targets) >= 4
    /\ Running # {}
    /\ joined = 0

\* C2: at most 3 capture tasks are Running (spawned, signal not yet sent).
C2_RunningAtMostThree == Cardinality(Running) <= 3

C2_Witness ==
    /\ Cardinality(Running) = 3
    /\ Len(rdp_targets) >= 5
    /\ 4 \in Running
    /\ targets_iter < Len(rdp_targets)

\* C3: rdp_worker has returned only if every target was dispatched, every
\* handle joined and every task's thread ended.
C3_ReturnedOnlyAfterAllJoined ==
    rdpPc = "returned" =>
        /\ Len(workers) = Len(rdp_targets)
        /\ joined = Len(workers)
        /\ \A k \in DOMAIN task : task[k] = "completed" /\ k \in JoinedTasks

C3_Witness ==
    /\ rdpPc = "returned"
    /\ Len(rdp_targets) >= 4
    /\ \E k \in DOMAIN result : result[k] = "Err"

\* Some capture task's thread has panicked
SomeTaskPanicked == \E k \in DOMAIN task : task[k] = "panicked"

PoolDone ==
    /\ rdpPc = "returned"
    /\ targets_iter = Len(rdp_targets)
    /\ \A k \in DOMAIN task : task[k] = "completed" /\ k \in JoinedTasks

\* C4: under fair scheduling, once rdp_worker runs it eventually has
\* dispatched every target, every task has completed and been joined, and
\* rdp_worker has returned, unless some task does not finish (panics).
C4_PoolEventuallyReturns ==
    (rdpPc # "unstarted") ~> (PoolDone \/ SomeTaskPanicked)

C4_Witness ==
    /\ PoolDone
    /\ Len(rdp_targets) = 5
    /\ joined = 5

\* C5: under fair scheduling, when the task of target k has ended with an
\* error, every other task still completes and is joined and rdp_worker
\* still returns (unless a task does not finish at all: it panics).
C5_SiblingsUnaffectedByFailure ==
    (\E k \in DOMAIN result : result[k] = "Err")
        ~> \/ SomeTaskPanicked
           \/ /\ rdpPc = "returned"
              /\ \A k \in DOMAIN result :
                    result[k] = "Err" =>
                        \A j \in DOMAIN task \ {k} :
                            task[j] = "completed" /\ j \in JoinedTasks

C5_Witness ==
    /\ rdpPc = "returned"
    /\ Len(rdp_targets) >= 4
    /\ result[1] = "Err"
    /\ \A j \in DOMAIN task \ {1} : result[j] = "Ok" /\ j \in JoinedTasks

\* The web pipeline has stopped (returned from web_worker, or panicked)
WebStopped == webPc \in {"returned", "panicked"}

\* Some web::capture call yielded an I/O failure
WebIoFailure == \E i \in DOMAIN webOut : webOut[i] = "IoError"

\* C6: a web capture that yields an I/O failure is the last one attempted:
\* the pipeline has stopped with exactly that many targets attempted.
C6_SystemicFailureStopsPipeline ==
    \A i \in DOMAIN webOut :
        webOut[i] = "IoError" => i = Len(webOut) /\ WebStopped

C6_Witness ==
    /\ Len(web_targets) = 4
    /\ webOut = <<"Ok", "BackendError", "IoError">>
    /\ webPc = "returned"

\* C7: for every backend, after a backend-specific failure at a position
\* that is not the last, the pipeline goes on to the next target.
C7_PerTargetFailureContinues ==
    \A i \in DOMAIN webOut :
        (webOut[i] = "BackendError" /\ i < Len(web_targets)) =>
            (Len(webOut) > i \/ webPc \in {"loop", "capturing"})

\* Both output directories exist and main is past creating them
DirsReady == rdp_dir /\ web_dir /\ mainPc \notin {"mkdir_rdp", "mkdir_web"}

\* The backend handle could not be set up (no capture was attempted)
WebInitFailed == webPc = "panicked" /\ webOut = <<>>

\* C8: with both directories in place, whatever the captures yield, main
\* does not end in a panic (other than for a backend handle that could not
\* be set up or a task handle that could not be joined), and it exits only
\* after both pipelines ended.
C8_CaptureFailuresNeverFailProcess ==
    DirsReady =>
        /\ mainPc = "panicked" => (WebInitFailed \/ rdpPc = "panicked")
        /\ mainPc = "exited" => rdpPc = "returned" /\ webPc = "returned"

\* C9: after an I/O failure in the web pipeline the process never ends
\* before the pool has dispatched and joined every RDP target, and under
\* fair scheduling the pool does get there (the pool's own fatal failure, a
\* panicked task, set aside).
C9_PoolUnaffectedByWebFailure ==
    /\ []((WebIoFailure /\ ~ProcessAlive) =>
            ((PoolDone /\ workers = rdp_targets) \/ rdpPc = "panicked"))
    /\ (WebIoFailure ~> ((PoolDone /\ workers = rdp_targets) \/ SomeTaskPanicked))

C9_Witness ==
    /\ WebIoFailure
    /\ WebStopped
    /\ rdpPc = "dispatch"
    /\ Len(rdp_targets) >= 4
    /\ targets_iter = 1

\* C10: tasks are spawned in source order: the handles pushed so far are
\* those of a prefix of the target sequence, in sequence order.
C10_DispatchedInSourceOrder ==
    /\ Len(workers) <= Len(rdp_targets)
    /\ \A i \in DOMAIN workers : workers[i] = rdp_targets[i]
    /\ \A j \in DOMAIN task :
          task[j] # "unspawned" => \A i \in 1..j : task[i] # "unspawned"

C10_Witness ==
    /\ Len(rdp_targets) = 5
    /\ task[1] = "running"
    /\ task[2] = "running"
    /\ task[3] = "completed"
    /\ task[4] = "completed"
    /\ task[5] = "running"
    /\ workers = <<1, 2, 3, 4, 5>>

\* Web captures started and not yet returned
WebInProgress == webIdx - Len(webOut)

\* C11: web captures run one at a time in source order: at most one call
\* is in progress, it is the call for the position right after the ones
\* that have returned, and none is in progress outside the call.
C11_WebOneAtATimeInOrder ==
    /\ webIdx <= Len(web_targets)
    /\ WebInProgress = (IF webPc = "capturing" THEN 1 ELSE 0)

C11_Witness ==
    /\ webPc = "capturing"
    /\ webIdx = 3
    /\ Len(webOut) = 2
    /\ Len(web_targets) >= 4

\* C12: while a directory is missing no pipeline has been started, and a
\* failed creation leaves main panicked with no RDP task spawned and no
\* web target attempted.
C12_DirFailureAbortsBeforePipelines ==
    (~rdp_dir \/ ~web_dir) =>
        /\ rdpPc = "unstarted" /\ webPc = "unstarted"
        /\ workers = <<>> /\ webIdx = 0 /\ webOut = <<>>
        /\ \A k \in DOMAIN task : task[k] = "unspawned"
        /\ mainPc \in {"mkdir_rdp", "mkdir_web", "panicked"}
        /\ (mainPc = "mkdir_web" => rdp_dir)

C12_Witness ==
    /\ mainPc = "panicked"
    /\ rdp_dir
    /\ ~web_dir
    /\ Len(rdp_targets) >= 1
    /\ Len(web_targets) >= 1

\* C13: directory set-up on an existing directory creates nothing, does
\* not panic and leaves it existing (whether or not a creation would have
\* succeeded), and a second set-up after a successful one changes nothing;
\* main steps past an existing directory accordingly.
C13_DirSetupIdempotent ==
    [][ /\ \A ok \in BOOLEAN :
              EnsureDir(TRUE, ok) = [dir |-> TRUE, created |-> FALSE, panic |-> FALSE]
        /\ \A d \in BOOLEAN : \A ok1 \in BOOLEAN : \A ok2 \in BOOLEAN :
              ~EnsureDir(d, ok1).panic =>
                  /\ EnsureDir(EnsureDir(d, ok1).dir, ok2).dir = EnsureDir(d, ok1).dir
                  /\ ~EnsureDir(EnsureDir(d, ok1).dir, ok2).created
                  /\ ~EnsureDir(EnsureDir(d, ok1).dir, ok2).panic
        /\ (mainPc = "mkdir_rdp" /\ rdp_dir) => (rdp_dir' /\ mainPc' = "mkdir_web")
        /\ (mainPc = "mkdir_web" /\ web_dir) => (web_dir' /\ mainPc' = "spawn_rdp")
      ]_vars

C13_Witness ==
    /\ mainPc = "spawn_rdp"
    /\ rdp_dir
    /\ web_dir

\* Completion signals sent so far, and those the scheduler has taken
SignalsSent == Cardinality({k \in DOMAIN task : task[k] = "completed"})

SignalsConsumed == SignalsSent - chan

\* C14: the active count is the number of tasks spawned minus the number of
\* completion signals taken from the channel; it goes down only by one,
\* together with one message leaving the channel, and a scheduler step
\* takes at most one message and spawns at most one task.
C14_CountIsSpawnedMinusConsumed ==
    /\ [](num_workers = Len(workers) - SignalsConsumed)
    /\ [][ /\ (num_workers' < num_workers) =>
                  (num_workers' = num_workers - 1 /\ chan' = chan - 1)
           /\ (chan' < chan) =>
                  (chan' = chan - 1 /\ num_workers' = num_workers - 1
                   /\ workers' = workers)
           /\ Len(workers') <= Len(workers) + 1
           /\ (Len(workers') = Len(workers) + 1) =>
                  (num_workers' = num_workers + 1 /\ chan' = chan)
         ]_vars

C14_Witness ==
    /\ Len(workers) = 5
    /\ SignalsConsumed = 2
    /\ num_workers = 3
    /\ chan = 1

\* rdp_worker has left the dispatch loop
DispatchStopped == rdpPc \in {"join", "returned", "panicked"}

\* C15: handles are joined in the order they were pushed, each once, and
\* only after the dispatch loop has been left with every target dispatched;
\* when rdp_worker has returned every handle has been joined.
C15_JoinedInSpawnOrder ==
    /\ [](/\ joined = Len(joinOrder)
          /\ joined <= Len(workers)
          /\ \A i \in DOMAIN joinOrder : joinOrder[i] = workers[i]
          /\ joined > 0 => DispatchStopped
          /\ DispatchStopped => targets_iter = Len(rdp_targets)
          /\ rdpPc = "returned" => joinOrder = workers)
    /\ [][ /\ (joinOrder' # joinOrder) =>
                  (rdpPc = "join" /\ Len(joinOrder') = Len(joinOrder) + 1)
           /\ DispatchStopped =>
                  (DispatchStopped' /\ workers' = workers
                   /\ targets_iter' = targets_iter)
         ]_vars

C15_Witness ==
    /\ rdpPc = "join"
    /\ Len(rdp_targets) >= 4
    /\ joinOrder = <<1, 2>>
    /\ task[3] = "running"
    /\ \A j \in DOMAIN task : j > 3 => task[j] = "completed"

\* C16: rdp_worker ends either by returning Ok(()), whatever the results
\* of the joined tasks, or by panicking on a handle that cannot be joined
\* (its thread panicked), never on an Err result; and when it has panicked
\* main cannot get past the join of rdp_handle other than by panicking.
C16_PoolFailsOnlyOnJoinFailure ==
    /\ [](/\ rdpPc = "panicked" =>
                (/\ joined < Len(workers)
                 /\ task[workers[joined + 1]] = "panicked")
          /\ \A k \in JoinedTasks : task[k] = "completed"
          /\ mainPc \in {"join_web", "exited"} => rdpPc = "returned"
          /\ (rdpPc = "panicked" /\ ~ProcessAlive) => mainPc = "panicked")
    /\ [][ (rdpPc = "panicked" /\ mainPc = "join_rdp" /\ mainPc' # mainPc) =>
               mainPc' = "panicked" ]_vars

C16_Witness ==
    /\ rdpPc = "panicked"
    /\ mainPc = "panicked"
    /\ result[1] = "Err"
    /\ 1 \in JoinedTasks
    /\ task[2] = "panicked"

\* C17: a task that has not sent its signal keeps its slot counted; while
\* three such tasks are running the scheduler is in its polling loop, and
\* every step in which none of them finishes leaves the iterator, the
\* handles and the count as they are and the scheduler in that loop: no
\* target is dispatched and the join phase is not reached.
C17_HungTasksBlockThePool ==
    /\ [](/\ Cardinality(Running) + chan <= num_workers
          /\ Cardinality(Running) = 3 =>
                (rdpPc \in {"poll", "dispatch"} /\ num_workers = 3 /\ chan = 0))
    /\ [][ (Cardinality(Running) = 3 /\ Running \subseteq Running') =>
              /\ targets_iter' = targets_iter
              /\ workers' = workers
              /\ num_workers' = num_workers
              /\ rdpPc' \in {"poll", "dispatch"}
         ]_vars

C17_Witness ==
    /\ Running = {1, 2, 3}
    /\ Len(rdp_targets) = 5
    /\ rdpPc = "poll"
    /\ targets_iter = 3
    /\ mainPc = "join_rdp"
    /\ webPc = "returned"

\* Some capture task's thread takes a step (it leaves the running state)
TaskStep == \E k \in DOMAIN task : task[k] = "running" /\ task'[k] # "running"

\* C18: a step of a capture task changes neither the active count nor the
\* iterator nor the handles nor the scheduler's position, and adds at most
\* one signal to the channel; the count and the iterator change only in a
\* scheduler step; hence the tasks running never exceed the count, which
\* never exceeds 3.
C18_CountAndIteratorSchedulerOwned ==
    /\ [][ TaskStep =>
              /\ num_workers' = num_workers
              /\ targets_iter' = targets_iter
              /\ workers' = workers
              /\ rdpPc' = rdpPc
              /\ chan' \in {chan, chan + 1}
         ]_vars
    /\ [][ (num_workers' # num_workers \/ targets_iter' # targets_iter) =>
              (rdpPc \in {"poll", "dispatch"} /\ rdpPc' # rdpPc)
         ]_vars
    /\ [](Cardinality(Running) <= num_workers /\ num_workers <= 3)

C18_Witness ==
    /\ rdpPc = "dispatch"
    /\ num_workers = 3
    /\ chan = 1
    /\ Cardinality(Running) = 2
    /\ targets_iter < Len(rdp_targets)

\* C19: once the dispatch loop has been left the iterator is exhausted and
\* the active count is below 3, so at least N-2 signals have been taken
\* when N >= 3; with fewer than 3 targets no pass ever finds the slots full.
C19_LoopExitCondition ==
    /\ DispatchStopped =>
          /\ targets_iter = Len(rdp_targets)
          /\ Len(workers) = Len(rdp_targets)
          /\ num_workers < 3
          /\ Len(rdp_targets) >= 3 => SignalsConsumed >= Len(rdp_targets) - 2
    /\ Len(rdp_targets) < 3 => num_workers < 3

C19_Witness ==
    /\ rdpPc = "join"
    /\ Len(rdp_targets) = 5
    /\ SignalsConsumed = 3
    /\ num_workers = 2
    /\ Cardinality(Running) = 2

\* C20: the active count stays within 0..3, and a message is never in the
\* channel while the count is 0, so the decrement never runs at 0.
C20_CounterInRange ==
    /\ 0 <= num_workers
    /\ num_workers <= 3
    /\ chan <= num_workers
    /\ (rdpPc = "poll" /\ TryRecvOk(chan)) => num_workers >= 1

C20_Witness ==
    /\ num_workers = 0
    /\ rdpPc = "dispatch"
    /\ Len(workers) = 1
    /\ SignalsConsumed = 1

====
